---- MODULE Spec2Model ----
(***************************************************************************)
(* mm-inactive-users (src/main.go, the variant with -hard-delete): team    *)
(* resolution, the page-fetch/filter loop, the interactive confirmation,   *)
(* the reviewer listing and the deactivate/delete dispatcher.              *)
(*                                                                         *)
(* Time is counted in milliseconds.  Strings the program inspects          *)
(* character by character (lines read from standard input) are sequences   *)
(* of one-character strings; a roles string is the sequence of its role    *)
(* names.                                                                  *)
(***************************************************************************)
EXTENDS Integers, Sequences, FiniteSets, TLC

VARIABLES
    pc,           \* position of the single thread of control
    exitCode,     \* process exit status once pc = "exited", -1 before
    exitCause,    \* log: the statement that ended the process, "" before
    dryrun,       \* -dry-run
    hardDelete,   \* -hard-delete
    age,          \* -age
    now,          \* last value time.Now() returned
    teamID,       \* processUsers' teamID
    teamLog,      \* log: how the team lookup went
    currentPage,  \* processUsers' currentPage
    candidates,   \* processUsers' candidateUsersMap
    origin,       \* log: for each key of candidates, the fetched record and computed age stored last
    skipLog,      \* log: the usernames of the "Skipping ..., as they are a system admin" lines
    pageLog,      \* log: the users pages requested and what came back
    parsed,       \* elements of the body in hand that ArrayEach has handed to the callback
    rdbuf,        \* number of complete lines the live bufio.Reader holds unread
    dropped,      \* log: a reader was left holding unread lines before a later read
    keypress,     \* last value promptForKeypress returned, <<>> before
    lastLine,     \* log: what the last ReadString of promptForKeypress returned
    prompted,     \* log: the confirmation prompt was printed
    invalidSeen,  \* log: "Invalid input" was printed
    listed,       \* log: printAllIdentifiedUsers was entered
    lst,          \* printAllIdentifiedUsers' locals, and a log of its last call
    todo,         \* deactivateUsers: candidates the range loop has not visited
    requests,     \* log: the action attempts of deactivateUsers, in order
    entered,      \* log: deactivateUsers was entered
    msgs,         \* log: the outcome messages printed (a set of tags)
    probe         \* the page in hand when callGetUsers is exercised on its own

vars == <<pc, exitCode, exitCause, dryrun, hardDelete, age, now, teamID, teamLog, currentPage,
          candidates, origin, skipLog, pageLog, parsed, rdbuf, dropped, keypress, lastLine,
          prompted, invalidSeen, listed, lst, todo, requests, entered, msgs, probe>>

----------------------------------------------------------------------------
(* Bounds of the model *)

\* content pages the server returns before it must answer "[]" or fail
MaxPages == 2
\* elements in one users page
MaxPageLen == 2
\* complete lines one read of standard input may hand to a bufio.Reader
MaxChunk == 2

----------------------------------------------------------------------------
(* Input universes *)

Ids == {"u1", "u2"}

UsernameOf(id) == IF id = "u1" THEN "alice" ELSE "bob"

DayMs == 24 * 60 * 60 * 1000

\* the clock when the process starts: 1 ms short of two days after the
\* second that LastActs' first value falls into
ClockStart == 2 * DayMs + 999

\* readings of the clock
Clock == {ClockStart, ClockStart + 1}

\* last_activity_at values (epoch milliseconds)
LastActs == {1000, DayMs + 999, 2 * DayMs + 500}

DeleteAts == {0, 7}

RolesSet == {<<"system_user">>, <<"system_user", "system_admin">>}

Ages == {1, 2}

Elements ==
    { [id |-> i, username |-> UsernameOf(i), last_activity_at |-> l,
       delete_at |-> d, roles |-> r] :
      i \in Ids, l \in LastActs, d \in DeleteAts, r \in RolesSet }

Last(q) == q[Len(q)]

SeqsUpTo(S, n) == UNION { [1..k -> S] : k \in 0..n }

----------------------------------------------------------------------------
(* Pure helpers *)

\* Go's integer division truncates toward zero
TruncDiv(a, b) == IF a >= 0 THEN a \div b ELSE -((-a) \div b)

\* time.Unix(epoch/1000, 0).Format("02-01-2006"): the calendar day, as a day number
EpochToDate(epoch) == (TruncDiv(epoch, 1000) * 1000) \div DayMs

DaysAgoFloor(epoch, t) == (t - epoch) \div DayMs

\* int(now.Sub(time.Unix(epoch/1000, 0)).Hours() / 24)
DaysAgo(epoch, t) == TruncDiv(t - TruncDiv(epoch, 1000) * 1000, DayMs)

\* strings.Contains(roles, "system_admin")
ContainsAdmin(roles) == \E i \in DOMAIN roles : roles[i] = "system_admin"

IncludeNoAdminCheck(roles, days, deleteAt, threshold) ==
    days >= threshold /\ deleteAt = 0

IncludeNoDeleteCheck(roles, days, deleteAt, threshold) ==
    ~ContainsAdmin(roles) /\ days >= threshold

IncludeStrict(roles, days, deleteAt, threshold) ==
    ~ContainsAdmin(roles) /\ days > threshold /\ deleteAt = 0

\* the branch of callGetUsers' callback that stores the user
Include(roles, days, deleteAt, threshold) ==
    ~ContainsAdmin(roles) /\ days >= threshold /\ deleteAt = 0

MakeUser(e, days) ==
    [UserID |-> e.id, Username |-> e.username,
     LastActivityOn |-> EpochToDate(e.last_activity_at),
     DaysSinceLastActivity |-> days]

EmptyMap == [k \in {} |-> 0]

MapPutAccumulate(m, k, v) ==
    [x \in DOMAIN m \cup {k} |->
        IF x # k THEN m[x]
        ELSE IF k \in DOMAIN m
             THEN [v EXCEPT !.DaysSinceLastActivity = @ + m[k].DaysSinceLastActivity]
             ELSE v]

MapPutFresh(m, k, v) == [x \in {k} |-> v]

\* usersMap[id] = User{...}
MapPut(m, k, v) == [x \in DOMAIN m \cup {k} |-> IF x = k THEN v ELSE m[x]]

\* one call of the callback handed to jsonparser.ArrayEach; st = [map, org, skip]
ApplyElement(st, e, threshold, t) ==
    LET days == DaysAgo(e.last_activity_at, t)
        skip == IF ContainsAdmin(e.roles) THEN st.skip \cup {e.username} ELSE st.skip IN
    IF Include(e.roles, days, e.delete_at, threshold)
    THEN [map |-> MapPut(st.map, e.id, MakeUser(e, days)),
          org |-> MapPut(st.org, e.id, [e |-> e, days |-> days]),
          skip |-> skip]
    ELSE [st EXCEPT !.skip = skip]

RECURSIVE ApplyPage(_, _, _, _)
\* jsonparser.ArrayEach over the elements of one page, in order; ts[i] is the
\* clock reading DaysAgo takes for the i-th element
ApplyPage(st, elems, threshold, ts) ==
    IF elems = <<>> THEN st
    ELSE ApplyPage(ApplyElement(st, Head(elems), threshold, Head(ts)),
                   Tail(elems), threshold, Tail(ts))

\* the clock readings n successive calls of time.Now() may return, none
\* earlier than from
Readings(n, from) ==
    { ts \in [1..n -> Clock] :
        /\ \A i \in 1..n : ts[i] >= from
        /\ \A i \in 1..(n - 1) : ts[i] <= ts[i + 1] }

----------------------------------------------------------------------------
(* Standard input *)

\* what the operator may type: a line is its characters, terminator included
Lines ==
    { <<"Y", "\n">>, <<" ", "y", " ", "\r", "\n">>,
      <<"N", "\n">>, <<"l", "\r", "\n">>,
      <<"Q", "\n">>, <<"q", "\r", "\n">>,
      <<"\n">> }

\* what may precede end of input on the last, unterminated line
Partials == { <<>>, <<"Y">> }

\* reader.ReadString('\n') on a bufio.Reader holding buf complete lines: the
\* possible results. input = the string returned, err = a non-nil error
\* (io.EOF), buf = the lines the reader holds afterwards. An empty reader
\* fills itself with one read(2) of standard input, which hands it 1..MaxChunk
\* complete lines or the end of input; what a held line says is drawn when
\* ReadString returns it
ReadString(buf) ==
    IF buf > 0
    THEN { [input |-> l, err |-> FALSE, buf |-> buf - 1] : l \in Lines }
    ELSE { [input |-> l, err |-> FALSE, buf |-> k - 1] : l \in Lines, k \in 1..MaxChunk }
         \cup { [input |-> p, err |-> TRUE, buf |-> 0] : p \in Partials }

ToUpperCh(c) ==
    CASE c = "y" -> "Y"
      [] c = "n" -> "N"
      [] c = "l" -> "L"
      [] c = "q" -> "Q"
      [] OTHER -> c

\* strings.ToUpper
ToUpper(s) == [i \in DOMAIN s |-> ToUpperCh(s[i])]

IsSpace(c) == c \in {" ", "\n", "\r", "\t"}

RECURSIVE TrimLeft(_)
TrimLeft(s) == IF s # <<>> /\ IsSpace(Head(s)) THEN TrimLeft(Tail(s)) ELSE s

RECURSIVE TrimRight(_)
TrimRight(s) ==
    IF s # <<>> /\ IsSpace(s[Len(s)]) THEN TrimRight(SubSeq(s, 1, Len(s) - 1)) ELSE s

\* strings.TrimSpace
TrimSpace(s) == TrimRight(TrimLeft(s))

\* input = strings.TrimSpace(strings.ToUpper(input))
Normalise(input) == TrimSpace(ToUpper(input))

\* allowedKeys := []string{"Y", "N", "L"}
AllowedKeys == { <<"Y">>, <<"N">>, <<"L">> }

\* input == "Q\n" || input == "Q\r\n", after strings.ToUpper
IsQuit(input) == ToUpper(input) \in { <<"Q", "\n">>, <<"Q", "\r", "\n">> }

----------------------------------------------------------------------------
(* Decisions of the workflow *)

\* getTerminalHeight(): the detected height, or defaultTerminalHeight
defaultTerminalHeight == 24

Heights == {1, 2, 3, defaultTerminalHeight}

HasMoreIfAnyCandidate(literal, users) == ~literal /\ users # EmptyMap

\* callGetUsers' bool result once the body is in hand: literal = the body is
\* the two bytes "[]", users = the map as callGetUsers leaves it
HasMore(literal, users) == ~literal

\* currentPage++
NextPage(p) == p + 1

AfterLoopIgnoreDryRun(n, dry) ==
    IF n = 0 THEN "none" ELSE "prompt"

AfterLoopNoEmptyCheck(n, dry) ==
    IF dry THEN "listing" ELSE "prompt"

\* processUsers after the fetch loop: where it goes for n candidates
AfterLoop(n, dry) ==
    IF n = 0 THEN "none"
    ELSE IF dry THEN "listing"
    ELSE "prompt"

OnKeypressNoMeansYes(k) ==
    CASE k = <<"Y">> -> "dispatch"
      [] k = <<"N">> -> "dispatch"
      [] k = <<"L">> -> "listing"

\* the switch on the keypress in processUsers
OnKeypress(k) ==
    CASE k = <<"Y">> -> "dispatch"
      [] k = <<"N">> -> "abort"
      [] k = <<"L">> -> "listing"

PermanentAlways(hard) == TRUE

\* deactivateUsers: whether the URL carries ?permanent=true
Permanent(hard) == hard

AbortOnFailure(outcome) == outcome = "ok"

\* deactivateUsers: whether the range loop goes on after an attempt that ended
\* in outcome (every failure branch is a continue)
LoopContinues(outcome) == TRUE

AttemptOutcomes == {"builderr", "neterr", "non200", "ok"}

----------------------------------------------------------------------------
(* The process *)

NoTeam == [kind |-> "none", status |-> 0, body |-> "none", list |-> "none"]

\* remaining = the entries the range loop has not visited, pauses = the
\* "Enter 'Q' to quit" prompts printed, quit = the loop ended in the break,
\* total = the number in the "Total users identified" line, -1 before it
NoList ==
    [remaining |-> {}, count |-> 0, pageSize |-> 0, pauses |-> 0, quit |-> FALSE, total |-> -1]

NoProbe ==
    [elems |-> <<>>, ts1 |-> <<>>, ts2 |-> <<>>, once |-> EmptyMap, applied |-> 0, days |-> 0]

Init ==
    /\ pc = "main"
    /\ exitCode = -1
    /\ exitCause = ""
    /\ dryrun \in BOOLEAN
    /\ hardDelete \in BOOLEAN
    /\ age \in Ages
    /\ now = ClockStart
    /\ teamID = ""
    /\ teamLog = NoTeam
    /\ currentPage = 0
    /\ candidates = EmptyMap
    /\ origin = EmptyMap
    /\ skipLog = {}
    /\ pageLog = <<>>
    /\ parsed = 0
    /\ rdbuf = 0
    /\ dropped = FALSE
    /\ keypress = <<>>
    /\ lastLine = <<>>
    /\ prompted = FALSE
    /\ invalidSeen = FALSE
    /\ listed = FALSE
    /\ lst = NoList
    /\ todo = {}
    /\ requests = <<>>
    /\ entered = FALSE
    /\ msgs = {}
    /\ probe = NoProbe

\* os.Exit(code), log.Fatal (code 1), a runtime panic (code 2), or main returning (code 0)
Exit(code, why) == pc' = "exited" /\ exitCode' = code /\ exitCause' = why

\* main up to the call of processUsers: flag.Parse (which ends the process
\* with status 2 on a malformed command line and 0 on -help), -version, then
\* the required parameters
Main ==
    /\ pc = "main"
    /\ \E cfg \in {"badflag", "help", "version", "missing", "ok"} :
          CASE cfg = "badflag" -> Exit(2, "flag_parse")
            [] cfg = "help" -> Exit(0, "help")
            [] cfg = "version" -> Exit(0, "version")
            [] cfg = "missing" -> Exit(1, "missing_config")
            [] cfg = "ok" -> pc' = "resolve" /\ UNCHANGED <<exitCode, exitCause>>
    /\ UNCHANGED <<dryrun, hardDelete, age, now, teamID, teamLog, currentPage, candidates,
                   origin, skipLog, pageLog, parsed, rdbuf, dropped, keypress, lastLine, prompted, invalidSeen,
                   listed, lst, todo, requests, entered, msgs, probe>>

\* ListTeamsAndExit: the exit status for each way the team list request ends
ListTeamsExit(list) ==
    CASE list = "reqerr" -> 10
      [] list = "neterr" -> 11
      [] list = "readerr" -> 12
      [] list = "empty" -> 13
      [] list = "list" -> 99

TeamKinds == {"reqerr", "neterr", "resp"}
TeamStatuses == {200, 401, 404, 500}
TeamBodies == {"readerr", "noid", "emptyid", "id"}
ListKinds == {"reqerr", "neterr", "readerr", "empty", "list"}

TeamExitAnyId(kind, status, body, list) ==
    IF kind # "resp" THEN 1
    ELSE IF status = 404 THEN ListTeamsExit(list)
    ELSE IF status # 200 THEN 4
    ELSE IF body \in {"id", "emptyid"} THEN -1
    ELSE 1

TeamExitStatusAsError(kind, status, body, list) ==
    IF kind # "resp" THEN 1
    ELSE IF status = 404 THEN ListTeamsExit(list)
    ELSE IF status # 200 THEN 1
    ELSE IF body = "id" THEN -1
    ELSE 1

\* getTeamID and the two checks processUsers makes of its result: the exit
\* status, or -1 when the team was resolved
TeamExit(kind, status, body, list) ==
    IF kind # "resp" THEN 1
    ELSE IF status = 404 THEN ListTeamsExit(list)
    ELSE IF status # 200 THEN 4
    ELSE IF body = "id" THEN -1
    ELSE 1

\* the statement that ends the process when the team is not resolved
TeamCause(kind, status, body, list) ==
    IF kind # "resp" THEN "team_error"
    ELSE IF status = 404
         THEN (IF list = "list" THEN "team_list" ELSE "team_list_failed")
    ELSE IF status # 200 THEN "team_status"
    ELSE IF body = "emptyid" THEN "team_empty_id"
    ELSE "team_error"

GetTeamID ==
    /\ pc = "resolve"
    /\ \E kind \in TeamKinds, status \in TeamStatuses, body \in TeamBodies, list \in ListKinds :
          LET code == TeamExit(kind, status, body, list) IN
          /\ teamLog' = [kind |-> kind,
                         status |-> IF kind = "resp" THEN status ELSE 0,
                         body |-> IF kind = "resp" /\ status = 200 THEN body ELSE "none",
                         list |-> IF kind = "resp" /\ status = 404 THEN list ELSE "none"]
          /\ IF code = -1
             THEN /\ teamID' = (IF body = "id" THEN "t1" ELSE "")
                  /\ pc' = "fetch"
                  /\ UNCHANGED <<exitCode, exitCause>>
             ELSE /\ teamID' = teamID
                  /\ Exit(code, TeamCause(kind, status, body, list))
    /\ UNCHANGED <<dryrun, hardDelete, age, now, currentPage, candidates,
                   origin, skipLog, pageLog, parsed, rdbuf, dropped, keypress, lastLine, prompted, invalidSeen,
                   listed, lst, todo, requests, entered, msgs, probe>>

\* printAllIdentifiedUsers up to its range loop: a new reader, the page size;
\* held = the lines the caller's reader still holds
EnterListing(users, held) ==
    /\ pc' = "listing"
    /\ UNCHANGED <<exitCode, exitCause>>
    /\ listed' = TRUE
    /\ rdbuf' = 0
    /\ dropped' = (dropped \/ held > 0)
    /\ \E h \in Heights :
          lst' = [NoList EXCEPT !.remaining = DOMAIN users, !.count = 2, !.pageSize = h - 1]

\* printAllIdentifiedUsers after its range loop, and what its caller does next:
\* in dry-run mode processUsers returns nil and main ends, otherwise the
\* confirmation loop calls promptForKeypress again
\* held = the lines the reviewer's reader still holds
LeaveListing(c, p, q, held) ==
    /\ lst' = [lst EXCEPT !.remaining = {}, !.count = c, !.pauses = p, !.quit = q,
                          !.total = Cardinality(DOMAIN candidates)]
    /\ rdbuf' = 0
    /\ IF dryrun
       THEN /\ Exit(0, "dry_run_listed")
            /\ UNCHANGED dropped
       ELSE /\ pc' = "prompt"
            /\ UNCHANGED <<exitCode, exitCause>>
            /\ dropped' = (dropped \/ held > 0)

\* deactivateUsers after its range loop, and the return of processUsers and main
LeaveDispatch ==
    /\ msgs' = msgs \cup {"complete"}
    /\ Exit(0, "dispatched")

\* processUsers from "All users reviewed" to the first read of standard input
PostLoop(users) ==
    LET target == AfterLoop(Cardinality(DOMAIN users), dryrun) IN
    CASE target = "none" ->
            /\ msgs' = msgs \cup {"all_reviewed", "no_users"}
            /\ Exit(0, "no_users")
            /\ UNCHANGED <<rdbuf, dropped, listed, lst>>
      [] target = "listing" ->
            /\ msgs' = msgs \cup {"all_reviewed", "dry_run"}
            /\ EnterListing(users, 0)
      [] target = "prompt" ->
            /\ msgs' = msgs \cup {"all_reviewed"}
            /\ pc' = "prompt"
            /\ UNCHANGED <<exitCode, exitCause>>
            /\ rdbuf' = 0
            /\ UNCHANGED <<dropped, listed, lst>>

\* how a users page request ends: an error before the body is in hand, the
\* body "[]", or any other body
PageKinds == {"reqerr", "neterr", "readerr", "literal", "array"}

\* processUsers' fetch loop on callGetUsers' result (hasMore, nil), and the
\* code after the loop when the loop ends
LoopOnResult(hasMore) ==
    IF hasMore
    THEN /\ currentPage' = NextPage(currentPage)
         /\ pc' = "fetch"
         /\ UNCHANGED <<exitCode, exitCause, rdbuf, dropped, listed, lst, msgs>>
    ELSE /\ currentPage' = currentPage
         /\ PostLoop(candidates)

OnFetchErrorBreak(kind) == "break"

\* processUsers' fetch loop on callGetUsers' result (false, err): log.Fatal
\* ends the process, the break after it is never reached
OnFetchError(kind) == "fatal"

\* callGetUsers for currentPage up to the parsing of the body, and, when it
\* returns before parsing, what processUsers does with the result
FetchPage ==
    /\ pc = "fetch"
    /\ \E kind \in PageKinds :
          /\ kind = "array" => Len(pageLog) < MaxPages
          /\ pageLog' = Append(pageLog,
                [page |-> currentPage,
                 kind |-> IF kind = "array" THEN "parsing" ELSE kind])
          /\ CASE kind = "array" ->
                     /\ pc' = "parse"
                     /\ UNCHANGED <<exitCode, exitCause, currentPage, rdbuf, dropped, listed, lst, msgs>>
               [] kind = "literal" ->
                     LoopOnResult(HasMore(TRUE, candidates))
               [] OTHER ->
                     IF OnFetchError(kind) = "fatal"
                     THEN /\ Exit(1, "page_error")
                          /\ UNCHANGED <<currentPage, rdbuf, dropped, listed, lst, msgs>>
                     ELSE LoopOnResult(FALSE)
    /\ UNCHANGED <<dryrun, hardDelete, age, now, teamID, teamLog, candidates, origin, skipLog,
                   parsed, keypress, lastLine, prompted, invalidSeen, todo, requests, entered,
                   probe>>

\* one call of the callback by jsonparser.ArrayEach: the next element of the
\* body and the clock reading DaysAgo takes for it
ParseElement ==
    /\ pc = "parse"
    /\ parsed < MaxPageLen
    /\ \E e \in Elements, t \in Clock :
          LET st == ApplyElement([map |-> candidates, org |-> origin, skip |-> skipLog],
                                 e, age, t) IN
          /\ t >= now
          /\ now' = t
          /\ candidates' = st.map
          /\ origin' = st.org
          /\ skipLog' = st.skip
    /\ parsed' = parsed + 1
    /\ UNCHANGED <<pc, exitCode, exitCause, dryrun, hardDelete, age, teamID, teamLog, currentPage, pageLog, rdbuf, dropped,
                   keypress, lastLine, prompted, invalidSeen, listed, lst, todo, requests,
                   entered, msgs, probe>>

\* jsonparser.ArrayEach returns: with an error (the body is no well-formed
\* array from here on) the run ends in log.Fatal, otherwise callGetUsers
\* returns and the fetch loop goes on
ParseEnd ==
    /\ pc = "parse"
    /\ parsed' = 0
    /\ \E ok \in BOOLEAN :
          IF ok
          THEN /\ pageLog' = [pageLog EXCEPT ![Len(pageLog)].kind = "array"]
               /\ LoopOnResult(HasMore(FALSE, candidates))
          ELSE /\ pageLog' = [pageLog EXCEPT ![Len(pageLog)].kind = "malformed"]
               /\ IF OnFetchError("malformed") = "fatal"
                  THEN /\ Exit(1, "page_error")
                       /\ UNCHANGED <<currentPage, rdbuf, dropped, listed, lst, msgs>>
                  ELSE LoopOnResult(FALSE)
    /\ UNCHANGED <<dryrun, hardDelete, age, now, teamID, teamLog, candidates, origin, skipLog,
                   keypress, lastLine, prompted, invalidSeen, todo, requests, entered, probe>>

\* one iteration of promptForKeypress' loop and, when it returns a key, the
\* switch of processUsers on it up to the next read or request
PromptRead ==
    /\ pc = "prompt"
    /\ prompted' = TRUE
    /\ \E r \in ReadString(rdbuf) :
          /\ lastLine' = r.input
          /\ IF r.err
             THEN /\ msgs' = msgs \cup {"input_error"}
                  /\ Exit(4, "keypress_error")
                  /\ rdbuf' = 0
                  /\ UNCHANGED dropped
                  /\ UNCHANGED <<keypress, invalidSeen, listed, lst, todo, entered>>
             ELSE LET k == Normalise(r.input) IN
                  IF k \notin AllowedKeys
                  THEN /\ invalidSeen' = TRUE
                       /\ rdbuf' = r.buf
                       /\ UNCHANGED dropped
                       /\ UNCHANGED <<pc, exitCode, exitCause, keypress, listed, lst, todo, entered, msgs>>
                  ELSE /\ keypress' = k
                       /\ UNCHANGED invalidSeen
                       /\ CASE OnKeypress(k) = "dispatch" ->
                                  /\ msgs' = msgs \cup {"deactivating"}
                                  /\ entered' = TRUE
                                  /\ todo' = DOMAIN candidates
                                  /\ pc' = "dispatch"
                                  /\ UNCHANGED <<exitCode, exitCause>>
                                  /\ rdbuf' = 0
                                  /\ UNCHANGED <<dropped, listed, lst>>
                            [] OnKeypress(k) = "abort" ->
                                  /\ msgs' = msgs \cup {"aborting"}
                                  /\ Exit(0, "aborted")
                                  /\ rdbuf' = 0
                                  /\ UNCHANGED <<dropped, listed, lst, todo, entered>>
                            [] OnKeypress(k) = "listing" ->
                                  /\ EnterListing(candidates, r.buf)
                                  /\ UNCHANGED <<todo, entered, msgs>>
    /\ UNCHANGED <<dryrun, hardDelete, age, now, teamID, teamLog, currentPage, candidates,
                   origin, skipLog, pageLog, parsed, requests, probe>>

\* one iteration of printAllIdentifiedUsers' range loop (the map is ranged
\* over in no fixed order), and the code after the loop when the loop ends
ListStep ==
    /\ pc = "listing"
    /\ IF lst.remaining = {}
       THEN LeaveListing(lst.count, lst.pauses, FALSE, rdbuf)
       ELSE \E u \in lst.remaining :
               LET c == lst.count + 1
                   rest == lst.remaining \ {u} IN
               IF lst.pageSize = 0
               THEN \* count%pageSize divides by zero: the runtime panics
                    /\ Exit(2, "panic")
                    /\ UNCHANGED <<rdbuf, dropped, lst>>
               ELSE IF c % lst.pageSize # 0
               THEN IF rest = {}
                    THEN LeaveListing(c, lst.pauses, FALSE, rdbuf)
                    ELSE /\ lst' = [lst EXCEPT !.remaining = rest, !.count = c]
                         /\ UNCHANGED <<pc, exitCode, exitCause, rdbuf, dropped>>
               ELSE \E r \in ReadString(rdbuf) :
                       IF IsQuit(r.input) \/ rest = {}
                       THEN LeaveListing(c, lst.pauses + 1, IsQuit(r.input), r.buf)
                       ELSE /\ lst' = [lst EXCEPT !.remaining = rest, !.count = c,
                                                  !.pauses = lst.pauses + 1]
                            /\ rdbuf' = r.buf
                            /\ UNCHANGED <<pc, exitCode, exitCause, dropped>>
    /\ UNCHANGED <<dryrun, hardDelete, age, now, teamID, teamLog, currentPage, candidates,
                   origin, skipLog, pageLog, parsed, keypress, lastLine, prompted, invalidSeen, listed,
                   todo, requests, entered, msgs, probe>>

\* one iteration of deactivateUsers' range loop (the map is ranged over in no
\* fixed order), and the code after the loop when the loop ends
DispatchStep ==
    /\ pc = "dispatch"
    /\ IF todo = {}
       THEN /\ LeaveDispatch
            /\ UNCHANGED <<todo, requests>>
       ELSE \E u \in todo, o \in AttemptOutcomes :
               /\ requests' = Append(requests,
                     [method |-> "DELETE", id |-> candidates[u].UserID,
                      permanent |-> Permanent(hardDelete), outcome |-> o])
               /\ IF LoopContinues(o)
                  THEN /\ todo' = todo \ {u}
                       /\ IF todo' = {}
                          THEN LeaveDispatch
                          ELSE UNCHANGED <<pc, exitCode, exitCause, msgs>>
                  ELSE /\ todo' = todo
                       /\ Exit(0, "dispatched")
                       /\ UNCHANGED msgs
    /\ UNCHANGED <<dryrun, hardDelete, age, now, teamID, teamLog, currentPage, candidates,
                   origin, skipLog, pageLog, parsed, rdbuf, dropped, keypress, lastLine, prompted, invalidSeen,
                   listed, lst, entered, probe>>

Next ==
    \/ Main
    \/ GetTeamID
    \/ FetchPage
    \/ ParseElement
    \/ ParseEnd
    \/ PromptRead
    \/ ListStep
    \/ DispatchStep

Spec == Init /\ [][Next]_vars

----------------------------------------------------------------------------
(* callGetUsers' parsing of one page on its own: the same page is handed to *)
(* it twice, after an earlier page of at most one element                   *)

InitPage ==
    /\ pc = "page"
    /\ exitCode = -1
    /\ exitCause = ""
    /\ dryrun = FALSE
    /\ hardDelete = FALSE
    /\ age \in Ages
    /\ now = ClockStart
    /\ teamID = "t1"
    /\ teamLog = [kind |-> "resp", status |-> 200, body |-> "id", list |-> "none"]
    /\ currentPage = 1
    /\ \E earlier \in SeqsUpTo(Elements, 1) :
          LET st == ApplyPage([map |-> EmptyMap, org |-> EmptyMap, skip |-> {}], earlier, age,
                              [i \in DOMAIN earlier |-> ClockStart]) IN
          /\ candidates = st.map
          /\ origin = st.org
          /\ skipLog = st.skip
    /\ pageLog = <<>>
    /\ parsed = 0
    /\ rdbuf = 0
    /\ dropped = FALSE
    /\ keypress = <<>>
    /\ lastLine = <<>>
    /\ prompted = FALSE
    /\ invalidSeen = FALSE
    /\ listed = FALSE
    /\ lst = NoList
    /\ todo = {}
    /\ requests = <<>>
    /\ entered = FALSE
    /\ msgs = {}
    /\ \E es \in SeqsUpTo(Elements, MaxPageLen) :
          probe = [NoProbe EXCEPT !.elems = es]

\* lines 281-307 on the page in hand, with the clock readings ts
ParsePage(ts) ==
    LET st == ApplyPage([map |-> candidates, org |-> origin, skip |-> skipLog],
                        probe.elems, age, ts) IN
    /\ now' = IF ts = <<>> THEN now ELSE Last(ts)
    /\ candidates' = st.map
    /\ origin' = st.org
    /\ skipLog' = st.skip

ApplyFirst ==
    /\ pc = "page"
    /\ probe.applied = 0
    /\ \E ts \in Readings(Len(probe.elems), now) :
          /\ ParsePage(ts)
          /\ probe' = [probe EXCEPT !.ts1 = ts, !.once = candidates', !.applied = 1]
    /\ UNCHANGED <<pc, exitCode, exitCause, dryrun, hardDelete, age, teamID, teamLog, currentPage,
                   pageLog, parsed, rdbuf, dropped, keypress, lastLine, prompted, invalidSeen, listed, lst,
                   todo, requests, entered, msgs>>

ApplyAgain ==
    /\ pc = "page"
    /\ probe.applied = 1
    /\ \E ts \in Readings(Len(probe.elems), now) :
          /\ ParsePage(ts)
          /\ probe' = [probe EXCEPT !.ts2 = ts, !.applied = 2]
    /\ UNCHANGED <<pc, exitCode, exitCause, dryrun, hardDelete, age, teamID, teamLog, currentPage,
                   pageLog, parsed, rdbuf, dropped, keypress, lastLine, prompted, invalidSeen, listed, lst,
                   todo, requests, entered, msgs>>

NextPageSpec == ApplyFirst \/ ApplyAgain

SpecPage == InitPage /\ [][NextPageSpec]_vars

----------------------------------------------------------------------------
(* DaysAgo and the comparison with the threshold on their own: one record of *)
(* a user that is no admin and not deactivated, whose last_activity_at lies  *)
(* up to three days before or after the clock reading, on and off a whole    *)
(* second                                                                    *)

DayEpochs == { k * DayMs + r : k \in 0..4, r \in {0, 1, 999, 1000, 1999} }

InitDays ==
    /\ pc = "days"
    /\ exitCode = -1
    /\ exitCause = ""
    /\ dryrun = FALSE
    /\ hardDelete = FALSE
    /\ age \in Ages
    /\ now \in Clock
    /\ teamID = "t1"
    /\ teamLog = [kind |-> "resp", status |-> 200, body |-> "id", list |-> "none"]
    /\ currentPage = 0
    /\ candidates = EmptyMap
    /\ origin = EmptyMap
    /\ skipLog = {}
    /\ pageLog = <<>>
    /\ parsed = 0
    /\ rdbuf = 0
    /\ dropped = FALSE
    /\ keypress = <<>>
    /\ lastLine = <<>>
    /\ prompted = FALSE
    /\ invalidSeen = FALSE
    /\ listed = FALSE
    /\ lst = NoList
    /\ todo = {}
    /\ requests = <<>>
    /\ entered = FALSE
    /\ msgs = {}
    /\ \E l \in DayEpochs :
          probe = [NoProbe EXCEPT !.elems =
                      << [id |-> "u1", username |-> UsernameOf("u1"), last_activity_at |-> l,
                          delete_at |-> 0, roles |-> <<"system_user">>] >>]

\* lines 287-306 for the record in hand, the clock reading being now
MeasureAge ==
    /\ pc = "days"
    /\ probe.applied = 0
    /\ ParsePage(<<now>>)
    /\ probe' = [probe EXCEPT !.ts1 = <<now>>, !.once = candidates', !.applied = 1,
                              !.days = DaysAgo(probe.elems[1].last_activity_at, now)]
    /\ UNCHANGED <<pc, exitCode, exitCause, dryrun, hardDelete, age, teamID, teamLog,
                   currentPage, pageLog, parsed, rdbuf, dropped, keypress, lastLine, prompted,
                   invalidSeen, listed, lst, todo, requests, entered, msgs>>

NextDays == MeasureAge

SpecDays == InitDays /\ [][NextDays]_vars

----------------------------------------------------------------------------
(* Properties *)

RequestedIds == { requests[i].id : i \in DOMAIN requests }

\* C1: in a dry run, whatever the candidates, -hard-delete and the operator's
\* input, no action request is issued and deactivateUsers is never entered
C1_DryRunNeverMutates ==
    dryrun => (requests = <<>> /\ ~entered /\ todo = {} /\ pc # "dispatch")

C1_Witness ==
    /\ dryrun /\ hardDelete
    /\ pc = "exited" /\ exitCode = 0
    /\ listed
    /\ DOMAIN candidates = Ids

\* C2: once callGetUsers has parsed a page, each of its elements that is no
\* system admin and has delete_at = 0 was stored if its computed age equals the
\* threshold, and was not stored if its computed age equals the threshold - 1
C2_ThresholdBoundary ==
    probe.applied >= 1 =>
        \A i \in DOMAIN probe.elems :
            LET e == probe.elems[i]
                d == DaysAgo(e.last_activity_at, probe.ts1[i]) IN
            (~ContainsAdmin(e.roles) /\ e.delete_at = 0) =>
                /\ d = age =>
                      /\ e.id \in DOMAIN candidates
                      /\ \E j \in i..Len(probe.elems) :
                            /\ probe.elems[j].id = e.id
                            /\ probe.once[e.id] =
                                  MakeUser(probe.elems[j],
                                           DaysAgo(probe.elems[j].last_activity_at, probe.ts1[j]))
                /\ d = age - 1 =>
                      \A k \in DOMAIN origin : origin[k] # [e |-> e, days |-> d]

C2_Witness ==
    /\ probe.applied = 1
    /\ age = 2
    /\ Len(probe.elems) = 2
    /\ DaysAgo(probe.elems[1].last_activity_at, probe.ts1[1]) = age
    /\ DaysAgo(probe.elems[2].last_activity_at, probe.ts1[2]) = age - 1
    /\ \A i \in 1..2 : ~ContainsAdmin(probe.elems[i].roles) /\ probe.elems[i].delete_at = 0
    /\ probe.elems[1].id # probe.elems[2].id
    /\ DOMAIN candidates = {probe.elems[1].id}

\* C3: no entry of the candidate set was stored from a record whose roles
\* contain the system-admin marker, whatever its age and delete_at, and every
\* action request is for a key of the candidate set
C3_AdminNeverCandidate ==
    /\ DOMAIN origin = DOMAIN candidates
    /\ \A k \in DOMAIN candidates :
          /\ ~ContainsAdmin(origin[k].e.roles)
          /\ origin[k].e.id = k
          /\ candidates[k].UserID = k
    /\ \A i \in DOMAIN requests :
          /\ requests[i].id \in DOMAIN candidates
          /\ ~ContainsAdmin(origin[requests[i].id].e.roles)

C3_Witness ==
    /\ skipLog = {UsernameOf("u1")}
    /\ DOMAIN candidates = {"u2"}
    /\ pc = "exited"
    /\ RequestedIds = {"u2"}

\* C4: no entry of the candidate set was stored from a record whose delete_at
\* is not 0, also when the record is old enough and no system admin
C4_DeletedNeverCandidate ==
    \A k \in DOMAIN origin : origin[k].e.delete_at = 0

C4_Witness ==
    /\ probe.applied = 1
    /\ Len(probe.elems) = 2
    /\ probe.elems[1].delete_at = 0
    /\ probe.elems[2].delete_at # 0
    /\ probe.elems[1].id = probe.elems[2].id
    /\ \A i \in 1..2 :
          /\ ~ContainsAdmin(probe.elems[i].roles)
          /\ DaysAgo(probe.elems[i].last_activity_at, probe.ts1[i]) >= age
    /\ origin[probe.elems[1].id].e = probe.elems[1]

\* C5: once promptForKeypress has returned N, no action request has been
\* issued and the process has ended with status 0
C5_NoMeansNoAction ==
    keypress = <<"N">> =>
        /\ requests = <<>>
        /\ ~entered
        /\ pc = "exited"
        /\ exitCode = 0

C5_Witness ==
    /\ keypress = <<"N">>
    /\ listed
    /\ invalidSeen
    /\ pc = "exited"
    /\ DOMAIN candidates = Ids

\* C6: the users pages are requested in the order 0, 1, 2, ..., each once; every
\* page before the last one requested came back as a body other than "[]";
\* after a body other than "[]" (with or without elements, with or without a
\* new candidate) the loop is about to request the next index; after "[]" it
\* requests nothing more
C6_PageSequence ==
    /\ \A i \in DOMAIN pageLog : pageLog[i].page = i - 1
    /\ \A i \in DOMAIN pageLog : i < Len(pageLog) => pageLog[i].kind = "array"
    /\ pc = "fetch" =>
          /\ currentPage = Len(pageLog)
          /\ pageLog # <<>> => Last(pageLog).kind = "array"
    /\ pc = "parse" =>
          /\ Last(pageLog).kind = "parsing"
          /\ currentPage = Last(pageLog).page
    /\ (pageLog # <<>> /\ Last(pageLog).kind = "array") =>
          pc = "fetch" /\ currentPage = Last(pageLog).page + 1
    /\ (pageLog # <<>> /\ Last(pageLog).kind = "literal") => pc \notin {"fetch", "parse"}

C6_Witness ==
    /\ Len(pageLog) = 2
    /\ pageLog[1].kind = "array"
    /\ pageLog[2].kind = "literal"
    /\ skipLog # {}
    /\ candidates = EmptyMap

\* C7: parsing the same page a second time with the same threshold and the same
\* clock reading leaves the candidate set as it was after the first time, one
\* entry per user identifier
C7_PageIdempotent ==
    (probe.applied = 2 /\ probe.ts2 = probe.ts1) =>
        /\ candidates = probe.once
        /\ \A k \in DOMAIN candidates : candidates[k].UserID = k

C7_Witness ==
    /\ probe.applied = 2
    /\ probe.ts2 = probe.ts1
    /\ Len(probe.elems) = 2
    /\ probe.elems[1].id = probe.elems[2].id
    /\ probe.elems[1].last_activity_at # probe.elems[2].last_activity_at
    /\ DOMAIN candidates = Ids
    /\ candidates[probe.elems[1].id] = MakeUser(probe.elems[2], DaysAgo(probe.elems[2].last_activity_at, now))

\* C8: when the fetch loop has ended on "[]" with an empty candidate set, in
\* either mode, the no-users message is logged and the process has ended with
\* status 0 without prompt, reviewer or action request
C8_NoCandidatesNoPrompt ==
    (pageLog # <<>> /\ Last(pageLog).kind = "literal" /\ candidates = EmptyMap) =>
        /\ pc = "exited"
        /\ exitCode = 0
        /\ "no_users" \in msgs
        /\ ~prompted
        /\ ~listed
        /\ ~entered
        /\ requests = <<>>

C8_Witness ==
    /\ Len(pageLog) = 1
    /\ pageLog[1].kind = "literal"
    /\ ~dryrun
    /\ pc = "exited"

\* C9: deactivateUsers is entered on Y only; each candidate is attempted at most
\* once, the attempted and the unvisited candidates together are the candidate
\* set, whatever the outcome of earlier attempts the loop goes on, and the
\* process ends with status 0 only when every candidate has been attempted
C9_FailureIsolation ==
    entered =>
        /\ keypress = <<"Y">>
        /\ RequestedIds \cup todo = DOMAIN candidates
        /\ RequestedIds \cap todo = {}
        /\ Cardinality(RequestedIds) = Len(requests)
        /\ pc \in {"dispatch", "exited"}
        /\ pc = "dispatch" => todo # {}
        /\ pc = "exited" => (todo = {} /\ exitCode = 0 /\ "complete" \in msgs)

C9_Witness ==
    /\ entered
    /\ pc = "exited"
    /\ Len(requests) = 2
    /\ requests[1].outcome = "builderr"
    /\ requests[2].outcome = "non200"

\* C10: every action request is a DELETE for a key of the candidate set, issued
\* outside dry-run mode after the operator answered Y, and it carries
\* permanent=true exactly when -hard-delete was given
C10_PermanentOnlyOnRequest ==
    \A i \in DOMAIN requests :
        /\ requests[i].method = "DELETE"
        /\ requests[i].permanent = hardDelete
        /\ ~dryrun
        /\ keypress = <<"Y">>
        /\ requests[i].id \in DOMAIN candidates

C10_Witness ==
    /\ ~hardDelete
    /\ Len(requests) = 2
    /\ ~requests[1].permanent
    /\ requests[2].outcome = "ok"

C12_CandidateSet ==
    /\ [](/\ DOMAIN origin = DOMAIN candidates
          /\ \A k \in DOMAIN candidates :
                LET o == origin[k] IN
                /\ o.e \in Elements
                /\ o.days >= age
                /\ \E t \in Clock : o.days = DaysAgo(o.e.last_activity_at, t)
                /\ ~ContainsAdmin(o.e.roles)
                /\ o.e.delete_at = 0
                /\ o.e.id = k
                /\ candidates[k] = MakeUser(o.e, o.days))
    /\ [][/\ DOMAIN candidates \subseteq DOMAIN candidates'
          /\ pc \notin {"fetch", "parse"} => candidates' = candidates]_vars

C12_Witness ==
    /\ DOMAIN candidates = Ids
    /\ Len(pageLog) = 3
    /\ listed
    /\ Len(requests) = 2
    /\ pc = "exited"

PageErrors == {"reqerr", "neterr", "readerr", "malformed"}

\* C13: once callGetUsers has returned an error for a page (request
\* construction, network, body read, or a body that is no well-formed array),
\* that page is the last one requested and the process has ended, without
\* confirmation prompt, reviewer or action request, whatever candidates the
\* earlier pages left
C13_FetchErrorFatal ==
    \A i \in DOMAIN pageLog :
        pageLog[i].kind \in PageErrors =>
            /\ i = Len(pageLog)
            /\ pc = "exited"
            /\ exitCause = "page_error"
            /\ exitCode # 0
            /\ ~prompted
            /\ ~listed
            /\ ~entered
            /\ requests = <<>>
            /\ "all_reviewed" \notin msgs

C13_Witness ==
    /\ Len(pageLog) = 2
    /\ pageLog[1].kind = "array"
    /\ pageLog[2].kind = "readerr"
    /\ DOMAIN candidates = Ids
    /\ ~dryrun
    /\ pc = "exited"

TeamResolved ==
    /\ teamLog = [kind |-> "resp", status |-> 200, body |-> "id", list |-> "none"]
    /\ teamID # ""

\* C14: a users page is requested (and a prompt, listing or action request
\* made) only after the team lookup answered 200 with a non-empty id; after a
\* 404 the team list was requested and the process has ended; after any
\* other status, a request, network or body error, or a body without a
\* non-empty id, the process has ended; in none of these was a users page
\* requested
C14_TeamGate ==
    /\ (\/ pc \in {"fetch", "parse", "prompt", "listing", "dispatch"}
        \/ pageLog # <<>>
        \/ prompted \/ listed \/ entered
        \/ requests # <<>>) => TeamResolved
    /\ teamLog.status = 404 =>
          /\ teamLog.list \in ListKinds
          /\ pc = "exited"
          /\ exitCode = ListTeamsExit(teamLog.list)
    /\ (teamLog # NoTeam /\ ~TeamResolved) =>
          /\ pc = "exited"
          /\ exitCode # 0
          /\ teamID = ""
          /\ pageLog = <<>>
          /\ ~prompted /\ ~listed /\ ~entered
          /\ requests = <<>>

C14_Witness ==
    /\ teamLog.status = 404
    /\ teamLog.list = "list"
    /\ pc = "exited"
    /\ exitCode = 99

NotSpace(c) == ~IsSpace(c)

\* the letter a line of input says, whitespace and case aside
Says(line, letter) ==
    /\ Len(SelectSeq(line, NotSpace)) = 1
    /\ ToUpperCh(SelectSeq(line, NotSpace)[1]) = letter

\* the last read of the confirmation prompt returned a complete line
LineRead == lastLine' # <<>> /\ Last(lastLine') = "\n"

\* C15: outside dry-run mode and with candidates, deactivateUsers is entered
\* only by the step in which the operator's line says Y, and at most once; a
\* line saying L starts the reviewer on the unchanged candidate set, and the
\* reviewer leads back to the confirmation prompt and nowhere else; a line
\* saying none of Y, N, L leaves the process at the prompt with nothing but the
\* input consumed; Y leads to dispatch and N to the end of the run, neither
\* back to the prompt
C15_Confirmation ==
    /\ [](/\ prompted => (~dryrun /\ candidates # EmptyMap)
          /\ entered => (Says(lastLine, "Y") /\ keypress = <<"Y">> /\ pc \in {"dispatch", "exited"})
          /\ keypress = <<"Y">> => entered
          /\ keypress = <<"N">> => (pc = "exited" /\ exitCode = 0 /\ ~entered))
    /\ [][/\ (~entered /\ entered') =>
                (pc = "prompt" /\ Says(lastLine', "Y") /\ todo' = DOMAIN candidates)
          /\ entered => (entered' /\ pc' \in {"dispatch", "exited"})
          /\ (pc = "prompt" /\ LineRead /\ Says(lastLine', "Y")) =>
                (pc' = "dispatch" /\ entered' /\ candidates' = candidates)
          /\ (pc = "prompt" /\ LineRead /\ Says(lastLine', "N")) =>
                (pc' = "exited" /\ exitCode' = 0 /\ requests' = <<>>)
          /\ (pc = "prompt" /\ LineRead /\ Says(lastLine', "L")) =>
                /\ pc' = "listing"
                /\ lst'.remaining = DOMAIN candidates
                /\ candidates' = candidates
          /\ (pc = "prompt" /\ LineRead /\ \A c \in {"Y", "N", "L"} : ~Says(lastLine', c)) =>
                /\ pc' = "prompt"
                /\ UNCHANGED <<exitCode, candidates, keypress, listed, lst, todo, requests,
                               entered, msgs>>
          /\ (pc = "listing" /\ ~dryrun) =>
                /\ pc' \in {"listing", "prompt"}
                /\ candidates' = candidates
                /\ pc' = "prompt" => (keypress' = <<"L">> /\ ~entered')]_vars

IsTruncated(q, x, u) ==
    IF x >= 0
    THEN q >= 0 /\ q * u <= x /\ x < (q + 1) * u
    ELSE q <= 0 /\ q * u >= x /\ x > (q - 1) * u

C17_ReviewerCompletes ==
    /\ []((listed /\ pc # "listing") =>
             /\ lst.total = Cardinality(DOMAIN candidates)
             /\ lst.count - 2 <= lst.total
             /\ lst.count - 2 < lst.total => lst.quit)
    /\ [](listed =>
             /\ lst.pageSize + 1 \in Heights
             /\ lst.pageSize > 0 =>
                   lst.pauses = (lst.count \div lst.pageSize) - (2 \div lst.pageSize)
             /\ lst.quit => pc # "listing"
             /\ pc = "listing" =>
                   Cardinality(lst.remaining) + lst.count - 2 = Cardinality(DOMAIN candidates))
    /\ [][(pc = "listing" /\ pc' = "listing") =>
              (lst'.count = lst.count + 1 /\ lst'.remaining \subseteq lst.remaining)]_vars

\* C18: no line of input that a reader of standard input has taken in is
\* left unread when a later prompt or pause reads: each read of the
\* confirmation prompt and of the reviewer returns the next line not yet
\* returned, so a read ends in end-of-input only when every line taken in
\* was returned
C18_NoInputLost == ~dropped

====
